---- MODULE Spec2Model ----
(***************************************************************************)
(* Model of the table-reservation API handler                              *)
(* (src/unnamed/part_000): the two DynamoDB tables, and the handlers       *)
(* handleCreateTable, handleGetReservations and handleCreateReservation.   *)
(* handleCreateReservation awaits three store operations (scan of the      *)
(* tables, scan of the reservations, put of the record); each await is a   *)
(* point at which another invocation may run, so it is modelled as one     *)
(* step per store operation.                                               *)
(*                                                                         *)
(* Time-of-day strings are compared by DynamoDB as strings, a total order; *)
(* a time is modelled by its rank 1..MaxTime in that order, and 0 is the   *)
(* empty / absent value (falsy in JavaScript).                             *)
(***************************************************************************)
EXTENDS Integers, FiniteSets, Sequences

\* ------------------------------------------------------------- bounds
MaxTime == 3
MaxInvocations == 2
MaxTables == 2

\* ------------------------------------------------------------- inputs
Procs == {1, 2}
Users == {"alice", "bob"}
NoUser == ""
Dates == {"2024-06-01", "2024-06-02"}
TableNumbers == {5, 7}
SuppliedIds == {1}
PlacesValues == {4}
ClientNames == {"Bob"}
PhoneNumbers == {"555-0100"}
NotANumber == -1

Callers == Users \cup {NoUser}
Times == 1..MaxTime

\* POST /reservations bodies; 0 and "" are the falsy (absent) values.
ReservationBodies ==
  [tableNumber : {0} \cup TableNumbers, clientName : ClientNames,
   phoneNumber : PhoneNumbers, date : {""} \cup Dates,
   slotTimeStart : 0..MaxTime, slotTimeEnd : 0..MaxTime]

\* The bodies of the concurrent scenario: one table number, one date.
RaceBodies ==
  {b \in ReservationBodies : b.tableNumber \in {0, 5} /\ b.date \in {"", "2024-06-01"}}

\* POST /tables bodies; id 0 is "no id supplied".
TableBodies ==
  [id : {0} \cup SuppliedIds, number : {NotANumber} \cup TableNumbers,
   places : PlacesValues, isVip : {"false"}, minOrder : {0}]

\* The table bodies of the concurrent scenario.
RaceTableBodies == {b \in TableBodies : b.number \in {NotANumber, 5}}

NoEvent == [username |-> NoUser,
            body |-> [tableNumber |-> 0, clientName |-> "", phoneNumber |-> "",
                      date |-> "", slotTimeStart |-> 0, slotTimeEnd |-> 0]]
NoTable == [id |-> 0, number |-> 0, places |-> 0, isVip |-> "absent", minOrder |-> 0]
NoReservation ==
  [id |-> 0, tableId |-> 0, tableNumber |-> 0, clientName |-> "", phoneNumber |-> "",
   username |-> "", date |-> "", time |-> 0, slotTimeEnd |-> 0, createdAt |-> 0]
NoResponse == [statusCode |-> 0, message |-> "", reservationId |-> 0]

VARIABLES
  tables,        \* TABLES_TABLE: id -> item
  reservations,  \* RESERVATIONS_TABLE: set of items (ids are unique)
  pc,            \* per invocation slot: where handleCreateReservation stands
  event,         \* per invocation slot: username of the token, parsed body
  table,         \* per invocation slot: local `table` (tableResult.Items[0])
  reservation,   \* per invocation slot: local `reservation`
  response,      \* per invocation slot: last response of handleCreateReservation
  uuidCount,     \* uuids issued so far
  clock,         \* wall clock (new Date())
  invoked,       \* number of POST /reservations invocations so far
  lastWrite      \* id of the reservation the last store write put, 0 if it put a table

vars == <<tables, reservations, pc, event, table, reservation, response,
          uuidCount, clock, invoked, lastWrite>>

\* ------------------------------------------------------------- helpers
\* uuidv4(): a fresh identifier, the n-th one issued for a store; generated ids
\* are negative, supplied ones positive.
uuidv4(n) == 0 - (n + 1)

\* Number of generated ids among the stored tables.
GeneratedTables == Cardinality({i \in DOMAIN tables : i < 0})

formatResponse(statusCode, message) ==
  [statusCode |-> statusCode, message |-> message, reservationId |-> 0]

\* A scan returns items in the store's key order, fixed for each key:
\* here ascending id.
RECURSIVE ScanSeq(_)
ScanSeq(ids) ==
  IF ids = {} THEN <<>>
  ELSE LET m == CHOOSE x \in ids : \A y \in ids : x <= y
       IN <<m>> \o ScanSeq(ids \ {m})

\* scan of TABLES_TABLE with FilterExpression "#num = :tableNumber"
ScanTablesByNumber(tableNumber) ==
  LET ids == {i \in DOMAIN tables : tables[i].number = tableNumber}
      order == ScanSeq(ids)
  IN [k \in 1..Len(order) |-> tables[order[k]]]

\* Mutant of Between: the bounds excluded.
BetweenStrict(x, lo, hi) == lo < x /\ x < hi

\* x BETWEEN lo AND hi
Between(x, lo, hi) == lo <= x /\ x <= hi

\* Mutant of ConflictFilter: only the stored start is probed.
ConflictFilterOneSided(item, tableId, date, start, end) ==
  /\ item.tableId = tableId
  /\ item.date = date
  /\ Between(item.time, start, end)

\* Mutant of ConflictFilter: the requested end, not the requested start, is
\* probed against the stored interval.
ConflictFilterEndProbe(item, tableId, date, start, end) ==
  /\ item.tableId = tableId
  /\ item.date = date
  /\ (Between(item.time, start, end) \/ Between(end, item.time, item.slotTimeEnd))

\* FilterExpression of the conflict scan
ConflictFilter(item, tableId, date, start, end) ==
  /\ item.tableId = tableId
  /\ item.date = date
  /\ (Between(item.time, start, end) \/ Between(start, item.time, item.slotTimeEnd))

\* Mutant of ScanConflicts: the stored table number is compared with the id.
ScanConflictsByNumber(tableId, date, start, end) ==
  {r \in reservations :
     ConflictFilter([r EXCEPT !.tableId = r.tableNumber], tableId, date, start, end)}

\* scan of RESERVATIONS_TABLE with the conflict filter
ScanConflicts(tableId, date, start, end) ==
  {r \in reservations : ConflictFilter(r, tableId, date, start, end)}

\* ------------------------------------------------------------- Init
Init ==
  /\ tables = <<>>
  /\ reservations = {}
  /\ pc = [p \in Procs |-> "idle"]
  /\ event = [p \in Procs |-> NoEvent]
  /\ table = [p \in Procs |-> NoTable]
  /\ reservation = [p \in Procs |-> NoReservation]
  /\ response = [p \in Procs |-> NoResponse]
  /\ uuidCount = 0
  /\ clock = 0
  /\ invoked = 0
  /\ lastWrite = 0

\* ------------------------------------------------------------- handleCreateTable
TableData(body, tableId) ==
  [id |-> tableId, number |-> body.number, places |-> body.places,
   isVip |-> body.isVip, minOrder |-> IF body.minOrder = 0 THEN 0 ELSE body.minOrder]

PutTable(item) ==
  [i \in DOMAIN tables \cup {item.id} |-> IF i = item.id THEN item ELSE tables[i]]

\* The response of handleCreateTable in the current state.
CreateTableResponse(username, body, fail) ==
  IF username = NoUser THEN [statusCode |-> 401, id |-> 0]
  ELSE IF body.number = NotANumber \/ body.places = NotANumber \/ body.isVip = "absent"
  THEN [statusCode |-> 400, id |-> 0]
  ELSE IF fail THEN [statusCode |-> 500, id |-> 0]
  ELSE [statusCode |-> 200,
        id |-> IF body.id # 0 THEN body.id ELSE uuidv4(GeneratedTables)]

handleCreateTable(username, body, fail) ==
  /\ UNCHANGED <<reservations, pc, event, table, reservation, response, uuidCount,
                 clock, invoked>>
  /\ IF username = NoUser
     THEN UNCHANGED <<tables, lastWrite>>
     ELSE IF body.number = NotANumber \/ body.places = NotANumber \/ body.isVip = "absent"
     THEN UNCHANGED <<tables, lastWrite>>
     ELSE LET tableId == IF body.id # 0 THEN body.id ELSE uuidv4(GeneratedTables)
          IN /\ (tableId \notin DOMAIN tables => Cardinality(DOMAIN tables) < MaxTables)
             /\ IF fail
                THEN UNCHANGED <<tables, lastWrite>>
                ELSE /\ tables' = PutTable(TableData(body, tableId))
                     /\ lastWrite' = 0

CreateTable(bodies) ==
  \E username \in Callers, body \in bodies, fail \in BOOLEAN :
    handleCreateTable(username, body, fail)

\* ------------------------------------------------------------- handleGetReservations
Projection(item) ==
  [tableNumber |-> item.tableNumber, clientName |-> item.clientName,
   phoneNumber |-> item.phoneNumber, date |-> item.date,
   slotTimeStart |-> item.time, slotTimeEnd |-> item.slotTimeEnd]

\* scan of RESERVATIONS_TABLE, with "username = :username" when user is truthy
ScanReservations(user) ==
  LET items == IF user # "" THEN {r \in reservations : r.username = user}
               ELSE reservations
      order == ScanSeq({r.id : r \in items})
  IN [k \in 1..Len(order) |-> CHOOSE r \in items : r.id = order[k]]

\* Mutant of GetReservationsResponse: the listing is filtered by the caller.
GetReservationsResponseOwn(username, user, fail) ==
  IF username = NoUser THEN [statusCode |-> 401, reservations |-> <<>>]
  ELSE IF fail THEN [statusCode |-> 500, reservations |-> <<>>]
  ELSE LET items == ScanReservations(IF user # "" THEN username ELSE "")
       IN [statusCode |-> 200,
           reservations |-> [k \in 1..Len(items) |-> Projection(items[k])]]

\* The response of handleGetReservations in the current state.
GetReservationsResponse(username, user, fail) ==
  IF username = NoUser THEN [statusCode |-> 401, reservations |-> <<>>]
  ELSE IF fail THEN [statusCode |-> 500, reservations |-> <<>>]
  ELSE LET items == ScanReservations(user)
       IN [statusCode |-> 200,
           reservations |-> [k \in 1..Len(items) |-> Projection(items[k])]]

handleGetReservations(username, user, fail) ==
  /\ UNCHANGED <<tables, reservations, pc, event, table, reservation, response,
                 uuidCount, clock, invoked, lastWrite>>

GetReservations ==
  \E username \in Callers, user \in Users \cup {""}, fail \in BOOLEAN :
    handleGetReservations(username, user, fail)

\* ------------------------------------------------------------- handleCreateReservation
Finish(p, resp) ==
  /\ pc' = [pc EXCEPT ![p] = "idle"]
  /\ response' = [response EXCEPT ![p] = resp]
  /\ event' = [event EXCEPT ![p] = NoEvent]
  /\ table' = [table EXCEPT ![p] = NoTable]
  /\ reservation' = [reservation EXCEPT ![p] = NoReservation]

\* Mutant of CreateReservationBegin: the required fields are checked before
\* the token.
CreateReservationBeginFieldsFirst(p, username, body) ==
  /\ pc[p] = "idle"
  /\ invoked < MaxInvocations
  /\ invoked' = invoked + 1
  /\ UNCHANGED <<tables, reservations, uuidCount, clock, lastWrite>>
  /\ IF body.tableNumber = 0 \/ body.date = "" \/ body.slotTimeStart = 0
        \/ body.slotTimeEnd = 0
     THEN Finish(p, formatResponse(400, "Missing required fields."))
     ELSE IF username = NoUser
     THEN Finish(p, formatResponse(401, "Unauthorized"))
     ELSE /\ pc' = [pc EXCEPT ![p] = "scanTables"]
          /\ event' = [event EXCEPT ![p] = [username |-> username, body |-> body]]
          /\ UNCHANGED <<table, reservation, response>>

\* Up to the first await: token, body, required fields.
CreateReservationBegin(p, username, body) ==
  /\ pc[p] = "idle"
  /\ invoked < MaxInvocations
  /\ invoked' = invoked + 1
  /\ UNCHANGED <<tables, reservations, uuidCount, clock, lastWrite>>
  /\ IF username = NoUser
     THEN Finish(p, formatResponse(401, "Unauthorized"))
     ELSE IF body.tableNumber = 0 \/ body.date = "" \/ body.slotTimeStart = 0
             \/ body.slotTimeEnd = 0
     THEN Finish(p, formatResponse(400, "Missing required fields."))
     ELSE /\ pc' = [pc EXCEPT ![p] = "scanTables"]
          /\ event' = [event EXCEPT ![p] = [username |-> username, body |-> body]]
          /\ UNCHANGED <<table, reservation, response>>

\* The scan of the tables returns.
CreateReservationScanTables(p, fail) ==
  /\ pc[p] = "scanTables"
  /\ UNCHANGED <<tables, reservations, uuidCount, clock, invoked, lastWrite>>
  /\ IF fail
     THEN Finish(p, formatResponse(500, "Internal Server Error"))
     ELSE LET items == ScanTablesByNumber(event[p].body.tableNumber)
          IN IF Len(items) = 0
             THEN Finish(p, formatResponse(400, "Table not found"))
             ELSE /\ table' = [table EXCEPT ![p] = items[1]]
                  /\ pc' = [pc EXCEPT ![p] = "scanReservations"]
                  /\ UNCHANGED <<event, reservation, response>>

\* The scan of the reservations returns; the record is built.
CreateReservationScanReservations(p, fail) ==
  /\ pc[p] = "scanReservations"
  /\ UNCHANGED <<tables, reservations, invoked, lastWrite>>
  /\ IF fail
     THEN /\ Finish(p, formatResponse(500, "Internal Server Error"))
          /\ UNCHANGED <<uuidCount, clock>>
     ELSE LET b == event[p].body
              existing == ScanConflicts(table[p].id, b.date, b.slotTimeStart, b.slotTimeEnd)
          IN IF existing # {}
             THEN /\ Finish(p, formatResponse(400, "Table already reserved for the selected time."))
                  /\ UNCHANGED <<uuidCount, clock>>
             ELSE /\ uuidCount' = uuidCount + 1
                  /\ clock' = clock + 1
                  /\ reservation' = [reservation EXCEPT ![p] =
                       [id |-> uuidv4(uuidCount), tableId |-> table[p].id,
                        tableNumber |-> table[p].number, clientName |-> b.clientName,
                        phoneNumber |-> b.phoneNumber, username |-> event[p].username,
                        date |-> b.date, time |-> b.slotTimeStart,
                        slotTimeEnd |-> b.slotTimeEnd, createdAt |-> clock]]
                  /\ pc' = [pc EXCEPT ![p] = "put"]
                  /\ UNCHANGED <<event, table, response>>

\* Mutant of CreateReservationPut: the put is conditional on no stored
\* reservation conflicting with the record; a failed condition is an error.
CreateReservationPutConditional(p, fail) ==
  /\ pc[p] = "put"
  /\ UNCHANGED <<tables, uuidCount, clock, invoked>>
  /\ IF fail \/ ScanConflicts(reservation[p].tableId, reservation[p].date,
                              reservation[p].time, reservation[p].slotTimeEnd) # {}
     THEN /\ Finish(p, formatResponse(500, "Internal Server Error"))
          /\ UNCHANGED <<reservations, lastWrite>>
     ELSE /\ lastWrite' = reservation[p].id
          /\ reservations' = reservations \cup {reservation[p]}
          /\ Finish(p, [statusCode |-> 200,
                        message |-> "Reservation created successfully.",
                        reservationId |-> reservation[p].id])

\* Mutant of CreateReservationPut: a put reported as failed has written.
CreateReservationPutLeaky(p, fail) ==
  /\ pc[p] = "put"
  /\ UNCHANGED <<tables, uuidCount, clock, invoked>>
  /\ lastWrite' = reservation[p].id
  /\ reservations' = reservations \cup {reservation[p]}
  /\ IF fail
     THEN Finish(p, formatResponse(500, "Internal Server Error"))
     ELSE Finish(p, [statusCode |-> 200,
                     message |-> "Reservation created successfully.",
                     reservationId |-> reservation[p].id])

\* The put of the record returns.
CreateReservationPut(p, fail) ==
  /\ pc[p] = "put"
  /\ UNCHANGED <<tables, uuidCount, clock, invoked>>
  /\ IF fail
     THEN /\ Finish(p, formatResponse(500, "Internal Server Error"))
          /\ UNCHANGED <<reservations, lastWrite>>
     ELSE /\ lastWrite' = reservation[p].id
          /\ reservations' = {r \in reservations : r.id # reservation[p].id}
                               \cup {reservation[p]}
          /\ Finish(p, [statusCode |-> 200,
                        message |-> "Reservation created successfully.",
                        reservationId |-> reservation[p].id])

\* The steps of an invocation in flight.
CreateReservationStep(p) ==
  \/ \E fail \in BOOLEAN : CreateReservationScanTables(p, fail)
  \/ \E fail \in BOOLEAN : CreateReservationScanReservations(p, fail)
  \/ \E fail \in BOOLEAN : CreateReservationPut(p, fail)

handleCreateReservation(p, bodies) ==
  \/ \E username \in Callers, body \in bodies : CreateReservationBegin(p, username, body)
  \/ CreateReservationStep(p)

Quiescent == \A p \in Procs : pc[p] = "idle"

\* ------------------------------------------------------------- specifications
\* Requests handled one at a time: an invocation starts when none is in flight.
SeqCreateTable == Quiescent /\ CreateTable(TableBodies)
SeqGetReservations == Quiescent /\ GetReservations
SeqCreateReservation == handleCreateReservation(1, ReservationBodies)

Next == SeqCreateTable \/ SeqGetReservations \/ SeqCreateReservation

Spec == Init /\ [][Next]_vars

\* Concurrent invocations: the awaits of two invocations interleave freely, and
\* with table creation.
RaceCreateReservation == \E p \in Procs : handleCreateReservation(p, RaceBodies)

RaceCreateTable == CreateTable(RaceTableBodies)

RaceNext == RaceCreateTable \/ RaceCreateReservation

RaceSpec == Init /\ [][RaceNext]_vars

\* ------------------------------------------------------------- properties
SlotConflictMessage == "Table already reserved for the selected time."

\* [a, b) and [c, d) share a point of time.
HalfOpenOverlap(a, b, c, d) ==
  \E t \in 1..MaxTime : a <= t /\ t < b /\ c <= t /\ t < d

SameSlotKey(r1, r2) == r1.tableId = r2.tableId /\ r1.date = r2.date

\* The invocation of slot p is rejected as a slot conflict in this step.
RejectedAsConflict(p) ==
  /\ pc'[p] = "idle"
  /\ response'[p] = [statusCode |-> 400, message |-> SlotConflictMessage,
                     reservationId |-> 0]
  /\ reservations' = reservations

\* C1: with requests handled one at a time, no two distinct stored reservations
\* of the same table and date have overlapping [time, slotTimeEnd) intervals.
C1_NoOverlapSequential ==
  \A r1 \in reservations : \A r2 \in reservations :
    (r1.id # r2.id /\ SameSlotKey(r1, r2))
      => ~HalfOpenOverlap(r1.time, r1.slotTimeEnd, r2.time, r2.slotTimeEnd)

\* A second request, whose slot overlaps a stored reservation of its table and
\* date, stands at its conflict read.
C1_Witness ==
  \E r \in reservations :
    /\ pc[1] = "scanReservations"
    /\ r.tableId = table[1].id /\ r.date = event[1].body.date
    /\ HalfOpenOverlap(r.time, r.slotTimeEnd,
                       event[1].body.slotTimeStart, event[1].body.slotTimeEnd)

\* C2: the put of a request that has passed its conflict read is unconditional:
\* unless the store fails it writes the record and answers 200, whatever other
\* invocations have written since the read (so a double booking is reachable,
\* C2_DoubleBooked).
C2_PutIsUnconditional ==
  [][\A p \in Procs :
       CreateReservationPut(p, FALSE)
         => /\ response'[p].statusCode = 200
            /\ reservation[p] \in reservations'
            /\ reservations \subseteq reservations']_vars

\* Both concurrent requests were answered 200 and their records, of the same
\* table and date and with overlapping slots, are both stored.
C2_DoubleBooked ==
  \E r1 \in reservations : \E r2 \in reservations :
    /\ r1.id # r2.id /\ SameSlotKey(r1, r2)
    /\ HalfOpenOverlap(r1.time, r1.slotTimeEnd, r2.time, r2.slotTimeEnd)
    /\ response[1] = [statusCode |-> 200, message |-> "Reservation created successfully.",
                      reservationId |-> r1.id]
    /\ response[2] = [statusCode |-> 200, message |-> "Reservation created successfully.",
                      reservationId |-> r2.id]

\* The overlap predicate as the specification words it: a <= d <= b or c <= a <= d.
C3_SpecPredicate(a, b, c, d) == (a <= d /\ d <= b) \/ (c <= a /\ a <= d)

\* The overlap predicate of the filter expression: a <= c <= b or c <= a <= d.
C3_CodePredicate(a, b, c, d) == (a <= c /\ c <= b) \/ (c <= a /\ a <= d)

\* C3 as claimed: when the conflict read succeeds, the request is rejected as a
\* slot conflict exactly when a stored reservation of the table and date has
\* a <= d <= b or c <= a <= d.
C3_AsClaimed ==
  [][\A p \in Procs :
       CreateReservationScanReservations(p, FALSE)
         => (RejectedAsConflict(p)
               <=> \E r \in reservations :
                     /\ r.tableId = table[p].id
                     /\ r.date = event[p].body.date
                     /\ C3_SpecPredicate(r.time, r.slotTimeEnd,
                                         event[p].body.slotTimeStart,
                                         event[p].body.slotTimeEnd))]_vars

\* C3 amended: the same with the predicate a <= c <= b or c <= a <= d (the start
\* of either interval lies within the other).
C3_ConflictExactlyByFilter ==
  [][\A p \in Procs :
       CreateReservationScanReservations(p, FALSE)
         => (RejectedAsConflict(p)
               <=> \E r \in reservations :
                     /\ r.tableId = table[p].id
                     /\ r.date = event[p].body.date
                     /\ C3_CodePredicate(r.time, r.slotTimeEnd,
                                         event[p].body.slotTimeStart,
                                         event[p].body.slotTimeEnd))]_vars

\* A request has been rejected as a slot conflict.
C3_Witness ==
  /\ pc[1] = "idle"
  /\ response[1].message = SlotConflictMessage
  /\ reservations # {}

\* C4: a step of handleCreateReservation never changes the table store; it
\* changes the reservation store only when it completes with 200, and then by
\* adding exactly the one record whose id it returns.
C4_NoEffectOnFailure ==
  [][\A p \in Procs :
       (pc'[p] # pc[p] \/ invoked' # invoked)
         => /\ tables' = tables
            /\ IF pc[p] = "put" /\ pc'[p] = "idle" /\ response'[p].statusCode = 200
               THEN \E r \in reservations' :
                      /\ r \notin reservations
                      /\ r.id = response'[p].reservationId
                      /\ \A o \in reservations : o.id # r.id
                      /\ reservations' = reservations \cup {r}
               ELSE reservations' = reservations]_vars

\* A call has ended with the internal error while reservations are stored.
C4_Witness ==
  \E p \in Procs :
    /\ pc[p] = "idle"
    /\ response[p] = [statusCode |-> 500, message |-> "Internal Server Error",
                      reservationId |-> 0]
    /\ reservations # {}

\* The fields the handler requires are all present in the body.
RequiredFieldsPresent(body) ==
  body.tableNumber # 0 /\ body.date # "" /\ body.slotTimeStart # 0 /\ body.slotTimeEnd # 0

\* C5: without store failures the outcome is fixed by the first failing check:
\* 401 without identity; else 400 "Missing required fields." before any store
\* read; else 400 "Table not found"; else 400 slot conflict; else 200 with a
\* new reservation id.  The part of the handler before its first store read
\* reads no state: every input is tried on the first invocation, and of every
\* later invocation that goes on to read the store the input is checked.
C5_FirstFailingCheckDecides ==
  [][\A p \in Procs :
       /\ (invoked = 0 /\ invoked' # invoked)
            => \A username \in Callers : \A body \in ReservationBodies :
                 CreateReservationBegin(p, username, body)
                   => IF username = NoUser
                      THEN /\ pc'[p] = "idle"
                           /\ response'[p] = formatResponse(401, "Unauthorized")
                      ELSE IF ~RequiredFieldsPresent(body)
                      THEN /\ pc'[p] = "idle"
                           /\ response'[p] = formatResponse(400, "Missing required fields.")
                      ELSE pc'[p] = "scanTables"
       /\ (pc[p] = "idle" /\ pc'[p] # "idle")
            => /\ pc'[p] = "scanTables"
               /\ event'[p].username # NoUser
               /\ RequiredFieldsPresent(event'[p].body)
       /\ CreateReservationScanTables(p, FALSE)
            => IF \A i \in DOMAIN tables : tables[i].number # event[p].body.tableNumber
               THEN /\ pc'[p] = "idle"
                    /\ response'[p] = formatResponse(400, "Table not found")
               ELSE pc'[p] = "scanReservations"
       /\ CreateReservationScanReservations(p, FALSE)
            => IF ScanConflicts(table[p].id, event[p].body.date,
                                event[p].body.slotTimeStart,
                                event[p].body.slotTimeEnd) # {}
               THEN RejectedAsConflict(p)
               ELSE pc'[p] = "put"
       /\ CreateReservationPut(p, FALSE)
            => /\ pc'[p] = "idle"
               /\ response'[p].statusCode = 200
               /\ response'[p].reservationId # 0
               /\ \A r \in reservations : r.id # response'[p].reservationId]_vars

\* A request was answered "Table not found" while tables are stored.
C5_Witness ==
  /\ pc[1] = "idle"
  /\ response[1] = formatResponse(400, "Table not found")
  /\ DOMAIN tables # {}

\* C6 as claimed: resolving the number of any stored table returns that table.
C6_ResolveRoundTrip ==
  \A i \in DOMAIN tables :
    LET items == ScanTablesByNumber(tables[i].number)
    IN Len(items) > 0 /\ items[1] = tables[i]

\* The request of slot p repeats the request that stored record r.
IdenticalRequest(p, r) ==
  /\ event[p].username = r.username
  /\ event[p].body.tableNumber = r.tableNumber
  /\ event[p].body.clientName = r.clientName
  /\ event[p].body.phoneNumber = r.phoneNumber
  /\ event[p].body.date = r.date
  /\ event[p].body.slotTimeStart = r.time
  /\ event[p].body.slotTimeEnd = r.slotTimeEnd

\* The step of slot p, repeating the request of record r with no store write
\* since r was written and no store failure, leads to the slot conflict.
RepeatIsRejected(p, r) ==
  /\ CreateReservationScanTables(p, FALSE)
       => pc'[p] = "scanReservations" /\ table'[p].id = r.tableId
  /\ CreateReservationScanReservations(p, FALSE) => RejectedAsConflict(p)

\* C7 as claimed: repeating any request that succeeded, with nothing in between,
\* fails with the slot conflict and adds no record.
C7_AsClaimed ==
  [][\A p \in Procs : \A r \in reservations :
       (r.id = lastWrite /\ IdenticalRequest(p, r)) => RepeatIsRejected(p, r)]_vars

\* C7 amended: the same for requests with slotTimeStart <= slotTimeEnd.
C7_RepeatRejected ==
  [][\A p \in Procs : \A r \in reservations :
       (r.id = lastWrite /\ IdenticalRequest(p, r) /\ r.time <= r.slotTimeEnd)
         => RepeatIsRejected(p, r)]_vars

\* The repeated request stands at its conflict read.
C7_Witness ==
  \E r \in reservations :
    /\ r.id = lastWrite /\ r.time <= r.slotTimeEnd
    /\ pc[1] = "scanReservations" /\ IdenticalRequest(1, r)

\* C8 as claimed: no step changes or removes a stored table.
C8_TablesImmutable ==
  [][\A i \in DOMAIN tables : i \in DOMAIN tables' /\ tables'[i] = tables[i]]_vars

\* The entries the listing must return for filter user ("" is no filter).
C9_Expected(user) ==
  {r \in reservations : user = "" \/ r.username = user}

\* The entry of the listing for a stored reservation, as the specification
\* gives it.
C9_Entry(r) ==
  [tableNumber |-> r.tableNumber, clientName |-> r.clientName,
   phoneNumber |-> r.phoneNumber, date |-> r.date,
   slotTimeStart |-> r.time, slotTimeEnd |-> r.slotTimeEnd]

\* C9: for an authenticated caller the listing holds exactly one entry for each
\* stored reservation whose username is the filter (for each stored reservation
\* without filter), whoever the caller is.
C9_ListingExact ==
  \A username \in Users : \A user \in Users \cup {""} :
    LET resp == GetReservationsResponse(username, user, FALSE)
    IN /\ resp.statusCode = 200
       /\ Len(resp.reservations) = Cardinality(C9_Expected(user))
       /\ \A r \in C9_Expected(user) :
            Cardinality({k \in DOMAIN resp.reservations :
                           resp.reservations[k] = C9_Entry(r)})
              = Cardinality({o \in C9_Expected(user) : C9_Entry(o) = C9_Entry(r)})

\* Reservations of both users are stored.
C9_Witness ==
  /\ \E r \in reservations : r.username = "alice"
  /\ \E r \in reservations : r.username = "bob"

\* The filter is symmetric in the stored and the requested interval.
FilterSymmetric ==
  \A a \in Times : \A b \in Times : \A c \in Times : \A d \in Times :
    LET stored(x, y) == [NoReservation EXCEPT !.time = x, !.slotTimeEnd = y]
    IN ConflictFilter(stored(a, b), 0, "", c, d) = ConflictFilter(stored(c, d), 0, "", a, b)

\* C10 as claimed: with a stored [s, e], s < e, every request of that table and
\* date whose slotTimeStart is e or whose slotTimeEnd is s is rejected.
C10_AsClaimed ==
  [][\A p \in Procs :
       CreateReservationScanReservations(p, FALSE)
         => /\ FilterSymmetric
            /\ \A r \in reservations :
                 (/\ r.tableId = table[p].id /\ r.date = event[p].body.date
                  /\ r.time < r.slotTimeEnd
                  /\ \/ event[p].body.slotTimeStart = r.slotTimeEnd
                     \/ event[p].body.slotTimeEnd = r.time)
                   => RejectedAsConflict(p)]_vars

\* C10 amended: a request whose slotTimeEnd is s is rejected when its
\* slotTimeStart is not after e.
C10_TouchingConflicts ==
  [][\A p \in Procs :
       CreateReservationScanReservations(p, FALSE)
         => /\ FilterSymmetric
            /\ \A r \in reservations :
                 (/\ r.tableId = table[p].id /\ r.date = event[p].body.date
                  /\ r.time < r.slotTimeEnd
                  /\ \/ event[p].body.slotTimeStart = r.slotTimeEnd
                     \/ /\ event[p].body.slotTimeEnd = r.time
                        /\ event[p].body.slotTimeStart <= r.slotTimeEnd)
                   => RejectedAsConflict(p)]_vars

\* A request that starts where a stored reservation ends stands at its
\* conflict read.
C10_Witness ==
  \E r \in reservations :
    /\ pc[1] = "scanReservations"
    /\ r.tableId = table[1].id /\ r.date = event[1].body.date
    /\ r.time < r.slotTimeEnd
    /\ event[1].body.slotTimeStart = r.slotTimeEnd
    /\ event[1].body.slotTimeStart < event[1].body.slotTimeEnd

====
